---- MODULE Spec2Model ----
(***************************************************************************)
(* Model of start.mjs, the Deep Rock Galactic community mod updater.       *)
(*                                                                         *)
(* A JavaScript string is a sequence of one-character strings, so that     *)
(* split, replace, trim and sort are computed character by character.      *)
(* Every action is one run-to-completion turn of the Node.js event loop:   *)
(* an I/O callback or a timer, together with the promise reactions         *)
(* (microtasks) it triggers.                                               *)
(***************************************************************************)
EXTENDS Integers, Sequences, FiniteSets, TLC

\* ------------------------------------------------------------------------
\* Bounds of the model
\* ------------------------------------------------------------------------
MaxRegistry == 3
MaxFiles == 2
MaxParsedFiles == 1
MaxNameParts == 2
MaxVersionLen == 2

\* ------------------------------------------------------------------------
\* Strings
\* ------------------------------------------------------------------------

\* UTF-16 code unit of the characters the model uses
Code(c) ==
  CASE c = " " -> 32 [] c = "-" -> 45 [] c = "." -> 46
    [] c = "0" -> 48 [] c = "1" -> 49 [] c = "2" -> 50 [] c = "5" -> 53
    [] c = "9" -> 57
    [] c = "A" -> 65 [] c = "B" -> 66 [] c = "P" -> 80 [] c = "V" -> 86
    [] c = "_" -> 95 [] c = "a" -> 97 [] c = "k" -> 107 [] c = "p" -> 112

\* s < t in the order Array.prototype.sort() uses without a comparator:
\* code unit by code unit, a proper prefix first
RECURSIVE StrLess(_, _)
StrLess(s, t) ==
  IF t = <<>> THEN FALSE
  ELSE IF s = <<>> THEN TRUE
  ELSE IF Code(Head(s)) # Code(Head(t)) THEN Code(Head(s)) < Code(Head(t))
  ELSE StrLess(Tail(s), Tail(t))

\* pat occurs in s at position i (1-based)
OccursAt(s, pat, i) ==
  /\ i >= 1
  /\ i + Len(pat) - 1 <= Len(s)
  /\ SubSeq(s, i, i + Len(pat) - 1) = pat

\* String.prototype.indexOf, 1-based; 0 when pat does not occur
IndexOf(s, pat) ==
  IF \E i \in 1..Len(s) : OccursAt(s, pat, i)
  THEN CHOOSE i \in 1..Len(s) :
         /\ OccursAt(s, pat, i)
         /\ \A j \in 1..(i - 1) : ~OccursAt(s, pat, j)
  ELSE 0

\* String.prototype.split(sep) for a non-empty separator: cut at every
\* occurrence, left to right
RECURSIVE Split(_, _)
Split(s, sep) ==
  LET i == IndexOf(s, sep) IN
    IF i = 0 THEN <<s>>
    ELSE <<SubSeq(s, 1, i - 1)>> \o Split(SubSeq(s, i + Len(sep), Len(s)), sep)

\* String.prototype.replace(pat, rep) with a string pattern: the first
\* occurrence only
Replace(s, pat, rep) ==
  LET i == IndexOf(s, pat) IN
    IF i = 0 THEN s
    ELSE SubSeq(s, 1, i - 1) \o rep \o SubSeq(s, i + Len(pat), Len(s))

RECURSIVE TrimStart(_)
TrimStart(s) ==
  IF s # <<>> /\ Head(s) = " " THEN TrimStart(Tail(s)) ELSE s

RECURSIVE TrimEnd(_)
TrimEnd(s) ==
  IF s # <<>> /\ s[Len(s)] = " " THEN TrimEnd(SubSeq(s, 1, Len(s) - 1)) ELSE s

\* String.prototype.trim
Trim(s) == TrimEnd(TrimStart(s))

\* Array.prototype.sort() of an array of strings
RECURSIVE Insert(_, _)
Insert(x, sorted) ==
  IF sorted = <<>> THEN <<x>>
  ELSE IF StrLess(x, Head(sorted)) THEN <<x>> \o sorted
  ELSE <<Head(sorted)>> \o Insert(x, Tail(sorted))

\* The array left in the order readdir returned it
SortOmitted(fs) == fs

RECURSIVE Sort(_)
Sort(fs) ==
  IF fs = <<>> THEN <<>> ELSE Insert(fs[Len(fs)], Sort(SubSeq(fs, 1, Len(fs) - 1)))


\* obj[key] = value on a plain object
Put(obj, key, value) ==
  [k \in DOMAIN obj \cup {key} |-> IF k = key THEN value ELSE obj[k]]

\* ------------------------------------------------------------------------
\* Literals of start.mjs
\* ------------------------------------------------------------------------
Separator == <<" ", "-", " ">>
PakSuffix == <<"_", "P", ".", "p", "a", "k">>
VersionMark == <<"V">>
DefaultVersion == <<"1">>

\* Total of the main step bar: startBar.start(5, 0)
StartBarTotal == 5

\* ------------------------------------------------------------------------
\* Filename parser (getInstalledMods, the reduce callback)
\* ------------------------------------------------------------------------
NoMods == [names |-> <<>>, versions |-> <<>>]

\* itemSplit[1].replace('_P.pak','').split('V')[1] || '1'
VersionOf(part) ==
  LET pieces == Split(Replace(part, PakSuffix, <<>>), VersionMark) IN
    IF Len(pieces) >= 2 /\ pieces[2] # <<>> THEN pieces[2] ELSE DefaultVersion

ParseItem(mods, item) ==
  LET itemSplit == Split(item, Separator) IN
    IF Len(itemSplit) > 1
    THEN LET name == itemSplit[1]
             version == VersionOf(itemSplit[2])
         IN [names |-> Append(mods.names, Trim(name)),
             versions |-> Put(mods.versions, name, Trim(version))]
    ELSE mods

RECURSIVE Reduce(_, _)
Reduce(files, mods) ==
  IF files = <<>> THEN mods ELSE Reduce(Tail(files), ParseItem(mods, Head(files)))

\* files.sort() followed by files.reduce(...)
ParseInstalled(files) == Reduce(Sort(files), NoMods)

\* ------------------------------------------------------------------------
\* Registry normalisation and reconciler
\* ------------------------------------------------------------------------

\* Rank of a character under String.prototype.localeCompare in the root
\* collation, for the characters display names are built from
CollationRank(c) ==
  CASE c = " " -> 1 [] c = "-" -> 2 [] c = "1" -> 3 [] c = "2" -> 4
    [] c = "A" -> 5 [] c = "B" -> 6 [] c = "V" -> 7

\* a.localeCompare(b) < 0
RECURSIVE LocaleLess(_, _)
LocaleLess(a, b) ==
  IF b = <<>> THEN FALSE
  ELSE IF a = <<>> THEN TRUE
  ELSE IF CollationRank(Head(a)) # CollationRank(Head(b))
       THEN CollationRank(Head(a)) < CollationRank(Head(b))
  ELSE LocaleLess(Tail(a), Tail(b))

\* for (const slug in remoteRegistry) push({slug, ...item}): the registry
\* object is kept as its entries in key order, the slug being the position
RegistryArray(reg) ==
  [i \in 1..Len(reg) |->
     [slug |-> i, DisplayName |-> reg[i].DisplayName, Version |-> reg[i].Version]]

\* remoteRegistryArray.sort(by DisplayName): a stable sort
RECURSIVE InsertEntry(_, _)
InsertEntry(x, sorted) ==
  IF sorted = <<>> THEN <<x>>
  ELSE IF LocaleLess(x.DisplayName, Head(sorted).DisplayName) THEN <<x>> \o sorted
  ELSE <<Head(sorted)>> \o InsertEntry(x, Tail(sorted))

\* The array left in the key order of the registry object
SortRegistryOmitted(arr) == arr

RECURSIVE SortRegistry(_)
SortRegistry(arr) ==
  IF arr = <<>> THEN <<>>
  ELSE InsertEntry(arr[Len(arr)], SortRegistry(SubSeq(arr, 1, Len(arr) - 1)))

\* installedMods.names.indexOf(x) !== -1
InNames(installed, x) == \E i \in 1..Len(installed.names) : installed.names[i] = x

\* remoteRegistryArray.filter(item => names.indexOf(item.DisplayName) !== -1)
RECURSIVE findMatchingMods(_, _)
findMatchingMods(remoteRegistryArray, installed) ==
  IF remoteRegistryArray = <<>> THEN <<>>
  ELSE (IF InNames(installed, Head(remoteRegistryArray).DisplayName)
        THEN <<Head(remoteRegistryArray)>> ELSE <<>>)
       \o findMatchingMods(Tail(remoteRegistryArray), installed)

\* installedMods.versions[x] !== v  (a missing key reads as undefined)
VersionDiffers(installed, x, v) ==
  ~(x \in DOMAIN installed.versions /\ installed.versions[x] = v)

\* The filter with its test written as === instead of !==
RECURSIVE checkOutdatedModsInverted(_, _)
checkOutdatedModsInverted(matchingMods, installed) ==
  IF matchingMods = <<>> THEN <<>>
  ELSE (IF ~VersionDiffers(installed, Head(matchingMods).DisplayName,
                           Head(matchingMods).Version)
        THEN <<Head(matchingMods)>> ELSE <<>>)
       \o checkOutdatedModsInverted(Tail(matchingMods), installed)

\* matchingMods.filter(item => versions[item.DisplayName] !== item.Version)
RECURSIVE checkOutdatedMods(_, _)
checkOutdatedMods(matchingMods, installed) ==
  IF matchingMods = <<>> THEN <<>>
  ELSE (IF VersionDiffers(installed, Head(matchingMods).DisplayName,
                          Head(matchingMods).Version)
        THEN <<Head(matchingMods)>> ELSE <<>>)
       \o checkOutdatedMods(Tail(matchingMods), installed)

\* `${item.DisplayName} - V${item.Version} _P.pak`
FileName(item) ==
  item.DisplayName \o <<" ", "-", " ", "V">> \o item.Version
    \o <<" ", "_", "P", ".", "p", "a", "k">>

\* ------------------------------------------------------------------------
\* State
\* ------------------------------------------------------------------------
VARIABLES
  registry,          \* the remote registry object: its entries in key order
  disk,              \* the mods directory: file name -> "complete" | "truncated"
  proc,              \* "loaded" | "running" | "exited"
  exitCode,          \* exit status of the process once proc = "exited"
  regFetch,          \* fetchRegistry: "idle" | "pending" | "ok" | "failed"
  dirRead,           \* getInstalledMods: "idle" | "pending" | "ok" | "failed"
  installedMods,     \* value getInstalledMods resolved with
  startup,           \* Promise.all of checkMods: "pending" | "then" | "caught"
  outdatedMods,      \* argument of downloadOutdatedMods, one task per element
  task,              \* task -> "head" | "streaming" | "succeeded"
                     \*         | "probeFailed" | "streamFailed" | "killed"
  requests,          \* slug -> number of HEAD and of GET requests issued
  downloadJoin,      \* Promise.all of downloadOutdatedMods:
                     \* "none" | "pending" | "resolved" | "rejected"
  totalDownloadsBar, \* value of the aggregate bar: start value plus the
                     \* increments made through increment(1)
  startBar,          \* value of the main step bar
  startBarActive,    \* started and not yet stopped
  timers,            \* pending setTimeout callbacks
  finishedCalls,     \* number of calls of finished()
  dataError,         \* console.error('Failed to get data', err) was written
  joinError,         \* task whose error 'Failed to download files' carried, or 0
  taskErrors,        \* task -> number of 'Download failed for <file>' lines
  finishedLogged,    \* console.log('Finished updating Mods') was written
  previousRun        \* what the run before this one did to its tasks, when
                     \* the program is started again on the same directory

vars == <<registry, disk, proc, exitCode, regFetch, dirRead, installedMods,
          startup, outdatedMods, task, requests, downloadJoin,
          totalDownloadsBar, startBar, startBarActive, timers, finishedCalls,
          dataError, joinError, taskErrors, finishedLogged, previousRun>>

Tasks == DOMAIN task
InFlight(t) == task[t] \in {"head", "streaming"}
Failed(t) == task[t] \in {"probeFailed", "streamFailed", "killed"}
Terminal(t) == ~InFlight(t)

\* ------------------------------------------------------------------------
\* Inputs
\* ------------------------------------------------------------------------
RegistryNames == {<<"A">>, <<"B">>}
RegistryVersions == {<<"1">>, <<"2">>}
Entries == [DisplayName : RegistryNames, Version : RegistryVersions]
Registries == UNION {[1..n -> Entries] : n \in 0..MaxRegistry}

FilePool ==
  { <<"A", " ", "-", " ", "V", "1", "_", "P", ".", "p", "a", "k">>,
    <<"B", " ", "-", " ", "V", "1", "_", "P", ".", "p", "a", "k">>,
    <<"A", " ", "-", " ", "V", "2", " ", "_", "P", ".", "p", "a", "k">>,
    <<"A", ".", "p", "a", "k">> }
\* The sets of at most n files of a pool
RECURSIVE DirectoriesOf(_, _)
DirectoriesOf(pool, n) ==
  IF n = 0 THEN {{}}
  ELSE DirectoriesOf(pool, n - 1)
         \cup {d \cup {f} : d \in DirectoriesOf(pool, n - 1), f \in pool}

Directories == DirectoriesOf(FilePool, MaxFiles)

\* The state of a freshly started process
Loaded ==
  /\ proc = "loaded"
  /\ exitCode = 0
  /\ regFetch = "idle"
  /\ dirRead = "idle"
  /\ installedMods = NoMods
  /\ startup = "pending"
  /\ outdatedMods = <<>>
  /\ task = <<>>
  /\ requests = [s \in 1..Len(registry) |-> [head |-> 0, get |-> 0]]
  /\ downloadJoin = "none"
  /\ totalDownloadsBar = 0
  /\ startBar = 0
  /\ startBarActive = FALSE
  /\ timers = {}
  /\ finishedCalls = 0
  /\ dataError = FALSE
  /\ joinError = 0
  /\ taskErrors = <<>>
  /\ finishedLogged = FALSE

NoPreviousRun == [ran |-> FALSE, failed |-> {}, succeeded |-> {}]

InitWith(reg, files) ==
  /\ registry = reg
  /\ disk = [f \in files |-> "complete"]
  /\ previousRun = NoPreviousRun
  /\ Loaded

Init == \E reg \in Registries, files \in Directories : InitWith(reg, files)

\* ------------------------------------------------------------------------
\* finished(startBar)
\* ------------------------------------------------------------------------
finished(bar, pending) ==
  /\ startBar' = bar + 1
  /\ startBarActive' = FALSE
  /\ timers' = pending \cup {"exit2500"}
  /\ finishedCalls' = finishedCalls + 1

\* ------------------------------------------------------------------------
\* downloadOutdatedMods(outdatedMods, startBar): every downloadFile call
\* runs up to its first await, that is, issues its HEAD request
\* ------------------------------------------------------------------------
Slugs(mods) == {mods[i].slug : i \in 1..Len(mods)}

downloadOutdatedMods(mods) ==
  /\ totalDownloadsBar' = 0
  /\ task' = [t \in 1..Len(mods) |-> "head"]
  /\ taskErrors' = [t \in 1..Len(mods) |-> 0]
  /\ requests' = [s \in DOMAIN requests |->
                    IF s \in Slugs(mods)
                    THEN [requests[s] EXCEPT !.head = @ + 1] ELSE requests[s]]
  /\ downloadJoin' = "pending"

\* ------------------------------------------------------------------------
\* checkMods: the .then callback of the startup Promise.all
\* ------------------------------------------------------------------------
Outdated(reg, installed) ==
  LET remoteRegistryArray == SortRegistry(RegistryArray(reg))
      matchingMods == findMatchingMods(remoteRegistryArray, installed)
  IN checkOutdatedMods(matchingMods, installed)

StartupThen(bar, installed) ==
  LET mods == Outdated(registry, installed) IN
    /\ startup' = "then"
    /\ outdatedMods' = mods
    /\ IF Len(mods) > 0
       THEN /\ downloadOutdatedMods(mods)
            /\ startBar' = bar
            /\ UNCHANGED <<startBarActive, timers, finishedCalls>>
       ELSE /\ finished(bar, timers)
            /\ UNCHANGED <<totalDownloadsBar, task, taskErrors, requests,
                           downloadJoin>>

\* checkMods: the .catch callback of the startup Promise.all
StartupCatch ==
  /\ startup' = "caught"
  /\ startBarActive' = FALSE
  /\ dataError' = TRUE

\* ------------------------------------------------------------------------
\* Actions
\* ------------------------------------------------------------------------

\* checkMods() up to its await: the bar starts, both startup operations
\* run up to their first await
CheckMods ==
  /\ proc = "loaded"
  /\ proc' = "running"
  /\ startBar' = 2
  /\ startBarActive' = TRUE
  /\ regFetch' = "pending"
  /\ dirRead' = "pending"
  /\ UNCHANGED <<registry, previousRun, disk, exitCode, installedMods, startup,
                 outdatedMods, task, requests, downloadJoin,
                 totalDownloadsBar, timers, finishedCalls, dataError,
                 joinError, taskErrors, finishedLogged>>

\* got(modRegistry).json() resolves
RegistryResponse ==
  /\ proc = "running"
  /\ regFetch = "pending"
  /\ regFetch' = "ok"
  /\ IF dirRead = "ok" /\ startup = "pending"
     THEN StartupThen(startBar + 1, installedMods)
     ELSE /\ startBar' = startBar + 1
          /\ UNCHANGED <<startup, outdatedMods, task, taskErrors, requests,
                         downloadJoin, totalDownloadsBar, startBarActive,
                         timers, finishedCalls>>
  /\ UNCHANGED <<registry, previousRun, disk, proc, exitCode, dirRead, installedMods,
                 dataError, joinError, finishedLogged>>

\* got(modRegistry).json() rejects: network error, non-2xx, malformed JSON
RegistryError ==
  /\ proc = "running"
  /\ regFetch = "pending"
  /\ regFetch' = "failed"
  /\ IF startup = "pending"
     THEN StartupCatch
     ELSE UNCHANGED <<startup, startBarActive, dataError>>
  /\ UNCHANGED <<registry, previousRun, disk, proc, exitCode, dirRead, installedMods,
                 outdatedMods, task, requests, downloadJoin,
                 totalDownloadsBar, startBar, timers, finishedCalls,
                 joinError, taskErrors, finishedLogged>>

\* All orders in which readdir can list the files
Listings(files) ==
  {l \in [1..Cardinality(files) -> files] :
     \A i, j \in DOMAIN l : i # j => l[i] # l[j]}

\* readdir resolves; the rest of getInstalledMods runs
ReaddirDone ==
  /\ proc = "running"
  /\ dirRead = "pending"
  /\ dirRead' = "ok"
  /\ \E files \in Listings(DOMAIN disk) :
       /\ installedMods' = ParseInstalled(files)
       /\ IF regFetch = "ok" /\ startup = "pending"
          THEN StartupThen(startBar + 1, ParseInstalled(files))
          ELSE /\ startBar' = startBar + 1
               /\ UNCHANGED <<startup, outdatedMods, task, taskErrors,
                              requests, downloadJoin, totalDownloadsBar,
                              startBarActive, timers, finishedCalls>>
  /\ UNCHANGED <<registry, previousRun, disk, proc, exitCode, regFetch, dataError,
                 joinError, finishedLogged>>

\* readdir rejects, but the rejection is swallowed inside getInstalledMods,
\* which then resolves with no installed mods
ReaddirErrorSwallowed ==
  /\ proc = "running"
  /\ dirRead = "pending"
  /\ dirRead' = "failed"
  /\ installedMods' = NoMods
  /\ IF regFetch = "ok" /\ startup = "pending"
     THEN StartupThen(startBar + 1, NoMods)
     ELSE /\ startBar' = startBar + 1
          /\ UNCHANGED <<startup, outdatedMods, task, taskErrors, requests,
                         downloadJoin, totalDownloadsBar, startBarActive,
                         timers, finishedCalls>>
  /\ UNCHANGED <<registry, previousRun, disk, proc, exitCode, regFetch, dataError,
                 joinError, finishedLogged>>

\* readdir rejects
ReaddirError ==
  /\ proc = "running"
  /\ dirRead = "pending"
  /\ dirRead' = "failed"
  /\ IF startup = "pending"
     THEN StartupCatch
     ELSE UNCHANGED <<startup, startBarActive, dataError>>
  /\ UNCHANGED <<registry, previousRun, disk, proc, exitCode, regFetch, installedMods,
                 outdatedMods, task, requests, downloadJoin,
                 totalDownloadsBar, startBar, timers, finishedCalls,
                 joinError, taskErrors, finishedLogged>>

\* The .catch callback without its call of finished()
JoinCatchLogsOnly(t) ==
  /\ downloadJoin' = "rejected"
  /\ joinError' = t
  /\ UNCHANGED <<startBar, startBarActive, timers, finishedCalls>>

\* downloadOutdatedMods: the .catch callback of Promise.all(promises), which
\* runs on the first rejection among the tasks and on no later one
JoinCatch(t) ==
  /\ downloadJoin' = "rejected"
  /\ joinError' = t
  /\ finished(startBar, timers)

\* downloadOutdatedMods: the .then callback of Promise.all(promises), which
\* runs once every task has resolved
JoinThen ==
  /\ downloadJoin' = "resolved"
  /\ timers' = timers \cup {"join1000"}

\* got.head(url) resolves for task t; downloadFile continues: the GET is
\* issued, createWriteStream opens (creates or truncates) the destination
HeadResponse(t) ==
  /\ proc = "running"
  /\ t \in Tasks
  /\ task[t] = "head"
  /\ task' = [task EXCEPT ![t] = "streaming"]
  /\ requests' = [requests EXCEPT ![outdatedMods[t].slug].get = @ + 1]
  /\ disk' = Put(disk, FileName(outdatedMods[t]), "truncated")
  /\ UNCHANGED <<registry, previousRun, proc, exitCode, regFetch, dirRead, installedMods,
                 startup, outdatedMods, downloadJoin, totalDownloadsBar,
                 startBar, startBarActive, timers, finishedCalls, dataError,
                 joinError, taskErrors, finishedLogged>>

\* The rejection of got.head(url) answered by probing the same url again
HeadErrorRetry(t) ==
  /\ proc = "running"
  /\ t \in Tasks
  /\ task[t] = "head"
  /\ requests' = [requests EXCEPT ![outdatedMods[t].slug].head = @ + 1]
  /\ UNCHANGED <<registry, previousRun, disk, proc, exitCode, regFetch,
                 dirRead, installedMods, startup, outdatedMods, task,
                 downloadJoin, totalDownloadsBar, startBar, startBarActive,
                 timers, finishedCalls, dataError, joinError, taskErrors,
                 finishedLogged>>

\* got.head(url) rejects for task t: the await throws, downloadFile rejects
HeadError(t) ==
  /\ proc = "running"
  /\ t \in Tasks
  /\ task[t] = "head"
  /\ task' = [task EXCEPT ![t] = "probeFailed"]
  /\ IF downloadJoin = "pending"
     THEN JoinCatch(t)
     ELSE UNCHANGED <<downloadJoin, joinError, startBar, startBarActive,
                      timers, finishedCalls>>
  /\ UNCHANGED <<registry, previousRun, disk, proc, exitCode, regFetch, dirRead,
                 installedMods, startup, outdatedMods, requests,
                 totalDownloadsBar, dataError, taskErrors, finishedLogged>>

\* pipeline(downloadStream, fileWriterStream) resolves for task t: the whole
\* body is in the file
PipelineDone(t) ==
  /\ proc = "running"
  /\ t \in Tasks
  /\ task[t] = "streaming"
  /\ task' = [task EXCEPT ![t] = "succeeded"]
  /\ disk' = Put(disk, FileName(outdatedMods[t]), "complete")
  /\ totalDownloadsBar' = totalDownloadsBar + 1
  /\ IF downloadJoin = "pending" /\ \A u \in Tasks \ {t} : task[u] = "succeeded"
     THEN JoinThen
     ELSE UNCHANGED <<downloadJoin, timers>>
  /\ UNCHANGED <<registry, previousRun, proc, exitCode, regFetch, dirRead, installedMods,
                 startup, outdatedMods, requests, startBar, startBarActive,
                 finishedCalls, dataError, joinError, taskErrors,
                 finishedLogged>>

\* The rejection handler with the increment of the aggregate bar moved to
\* where it runs for failed downloads too
PipelineErrorCounted(t) ==
  /\ proc = "running"
  /\ t \in Tasks
  /\ task[t] = "streaming"
  /\ task' = [task EXCEPT ![t] = "streamFailed"]
  /\ taskErrors' = [taskErrors EXCEPT ![t] = @ + 1]
  /\ totalDownloadsBar' = totalDownloadsBar + 1
  /\ IF downloadJoin = "pending"
     THEN JoinCatch(t)
     ELSE UNCHANGED <<downloadJoin, joinError, startBar, startBarActive,
                      timers, finishedCalls>>
  /\ UNCHANGED <<registry, previousRun, disk, proc, exitCode, regFetch,
                 dirRead, installedMods, startup, outdatedMods, requests,
                 dataError, finishedLogged>>

\* pipeline(...) rejects for task t (non-2xx response, network error in the
\* stream, write error): the streams are destroyed, the file stays as it is
PipelineError(t) ==
  /\ proc = "running"
  /\ t \in Tasks
  /\ task[t] = "streaming"
  /\ task' = [task EXCEPT ![t] = "streamFailed"]
  /\ taskErrors' = [taskErrors EXCEPT ![t] = @ + 1]
  /\ IF downloadJoin = "pending"
     THEN JoinCatch(t)
     ELSE UNCHANGED <<downloadJoin, joinError, startBar, startBarActive,
                      timers, finishedCalls>>
  /\ UNCHANGED <<registry, previousRun, disk, proc, exitCode, regFetch, dirRead,
                 installedMods, startup, outdatedMods, requests,
                 totalDownloadsBar, dataError, finishedLogged>>

\* The 1000 ms timer set by the .then callback of downloadOutdatedMods
JoinTimer ==
  /\ proc = "running"
  /\ "join1000" \in timers
  /\ finished(startBar, timers \ {"join1000"})
  /\ UNCHANGED <<registry, previousRun, disk, proc, exitCode, regFetch, dirRead,
                 installedMods, startup, outdatedMods, task, requests,
                 downloadJoin, totalDownloadsBar, dataError, joinError,
                 taskErrors, finishedLogged>>

\* The 2500 ms timer set by finished(): process.exit(0) ends the process
\* with whatever is still in flight
ExitTimer ==
  /\ proc = "running"
  /\ "exit2500" \in timers
  /\ finishedLogged' = TRUE
  /\ proc' = "exited"
  /\ exitCode' = 0
  /\ timers' = {}
  /\ task' = [t \in Tasks |-> IF InFlight(t) THEN "killed" ELSE task[t]]
  /\ UNCHANGED <<registry, previousRun, disk, regFetch, dirRead, installedMods, startup,
                 outdatedMods, requests, downloadJoin, totalDownloadsBar,
                 startBar, startBarActive, finishedCalls, dataError,
                 joinError, taskErrors>>

\* Nothing is pending any more: node leaves the event loop, and the exit
\* status is 0 because no exception was left uncaught and process.exitCode
\* was never set
EventLoopDrained ==
  /\ proc = "running"
  /\ timers = {}
  /\ regFetch # "pending"
  /\ dirRead # "pending"
  /\ \A t \in Tasks : Terminal(t)
  /\ proc' = "exited"
  /\ exitCode' = 0
  /\ UNCHANGED <<registry, previousRun, disk, regFetch, dirRead, installedMods, startup,
                 outdatedMods, task, requests, downloadJoin,
                 totalDownloadsBar, startBar, startBarActive, timers,
                 finishedCalls, dataError, joinError, taskErrors,
                 finishedLogged>>

Next ==
  \/ CheckMods
  \/ RegistryResponse
  \/ RegistryError
  \/ ReaddirDone
  \/ ReaddirError
  \/ \E t \in Tasks : HeadResponse(t)
  \/ \E t \in Tasks : HeadError(t)
  \/ \E t \in Tasks : PipelineDone(t)
  \/ \E t \in Tasks : PipelineError(t)
  \/ JoinTimer
  \/ ExitTimer
  \/ EventLoopDrained

Spec == Init /\ [][Next]_vars

TypeOK ==
  /\ proc \in {"loaded", "running", "exited"}
  /\ regFetch \in {"idle", "pending", "ok", "failed"}
  /\ dirRead \in {"idle", "pending", "ok", "failed"}
  /\ startup \in {"pending", "then", "caught"}
  /\ downloadJoin \in {"none", "pending", "resolved", "rejected"}
  /\ \A t \in Tasks : task[t] \in {"head", "streaming", "succeeded",
                                   "probeFailed", "streamFailed", "killed"}
  /\ timers \subseteq {"join1000", "exit2500"}
  /\ \A f \in DOMAIN disk : disk[f] \in {"complete", "truncated"}

\* ------------------------------------------------------------------------
\* A second family of inputs: directories of user mod files whose names are
\* built from a name and a version, against a registry of at most one entry
\* ------------------------------------------------------------------------
NameParts == {<<"A">>, <<"B">>}
VersionChars == {"1", "2", "V"}

RECURSIVE JoinedNames(_)
JoinedNames(n) ==
  IF n = 1 THEN NameParts
  ELSE {p \o Separator \o q : p \in JoinedNames(n - 1), q \in NameParts}

ParsedNames == UNION {JoinedNames(n) : n \in 1..MaxNameParts}
ParsedVersions == UNION {[1..n -> VersionChars] : n \in 1..MaxVersionLen}

\* "<Name> - V<k>_P.pak"
UserModFile(name, k) == name \o <<" ", "-", " ", "V">> \o k \o PakSuffix
\* "<Name> - _P.pak"
UnversionedFile(name) == name \o <<" ", "-", " ">> \o PakSuffix

\* Names with a space before or after them, as in " A - V1_P.pak" and
\* "A  - V1_P.pak"
PaddedNames ==
  {<<" ">> \o n : n \in NameParts} \cup {n \o <<" ">> : n \in NameParts}

ParsedFilePool ==
  {UserModFile(n, k) : n \in ParsedNames, k \in ParsedVersions}
    \cup {UnversionedFile(n) : n \in ParsedNames}
    \cup {UserModFile(n, k) : n \in PaddedNames, k \in RegistryVersions}
ParsedDirectories == DirectoriesOf(ParsedFilePool, MaxParsedFiles)
SmallRegistries == UNION {[1..n -> Entries] : n \in 0..1}

ParserInit ==
  \E reg \in SmallRegistries, files \in ParsedDirectories : InitWith(reg, files)

ParserSpec == ParserInit /\ [][Next]_vars

\* ------------------------------------------------------------------------
\* A third family of runs: the program is started again on the directory
\* the run before left behind, against the same registry
\* ------------------------------------------------------------------------
Mod(item) == [DisplayName |-> item.DisplayName, Version |-> item.Version]

\* node start.mjs is run again after the process has ended
Rerun ==
  /\ proc = "exited"
  /\ previousRun' =
       [ran |-> TRUE,
        failed |-> {Mod(outdatedMods[t]) : t \in {u \in Tasks : Failed(u)}},
        succeeded |-> {Mod(outdatedMods[t]) :
                         t \in {u \in Tasks : task[u] = "succeeded"}}]
  /\ UNCHANGED <<registry, disk>>
  /\ proc' = "loaded"
  /\ exitCode' = 0
  /\ regFetch' = "idle"
  /\ dirRead' = "idle"
  /\ installedMods' = NoMods
  /\ startup' = "pending"
  /\ outdatedMods' = <<>>
  /\ task' = <<>>
  /\ requests' = [s \in 1..Len(registry) |-> [head |-> 0, get |-> 0]]
  /\ downloadJoin' = "none"
  /\ totalDownloadsBar' = 0
  /\ startBar' = 0
  /\ startBarActive' = FALSE
  /\ timers' = {}
  /\ finishedCalls' = 0
  /\ dataError' = FALSE
  /\ joinError' = 0
  /\ taskErrors' = <<>>
  /\ finishedLogged' = FALSE

RerunVersions ==
  {<<"1">>, <<"2">>, <<"9">>, <<"1", "0">>, <<"1", ".", "5">>}

\* One mod "A" installed by hand in some version, one registry entry for it
RerunInit ==
  \E old \in RerunVersions, new \in RerunVersions :
    InitWith(<<[DisplayName |-> <<"A">>, Version |-> new]>>,
             {UserModFile(<<"A">>, old)})

RerunNext == Next \/ Rerun

RerunSpec == RerunInit /\ [][RerunNext]_vars

\* ------------------------------------------------------------------------
\* Properties
\* ------------------------------------------------------------------------
Destination(t) == FileName(outdatedMods[t])
\* Tasks that ended by a failure of their own (probe, stream or write)
OwnFailure == {t \in Tasks : task[t] \in {"probeFailed", "streamFailed"}}
StartupFailed == regFetch = "failed" \/ dirRead = "failed"
NoRequests == \A s \in DOMAIN requests : requests[s].head = 0 /\ requests[s].get = 0

\* C1: in a run with a non-empty outdated set, finished() is invoked, and
\* the process exits, only after every download task has reached its own
\* terminal state, success or failure.
C1_WaitAllJoin ==
  (Len(outdatedMods) > 0 /\ finishedCalls > 0) =>
    \A t \in Tasks : task[t] \in {"succeeded", "probeFailed", "streamFailed"}

\* C2: the failure of one task does not cancel or block the others: when
\* the run has reported "finished" with at least one failed task, every
\* other task has succeeded with its file complete, and the aggregate
\* counter equals the number of tasks that did not fail.
C2_PartialFailureTolerance ==
  (proc = "exited" /\ finishedLogged /\ OwnFailure # {}) =>
    /\ \A t \in Tasks \ OwnFailure :
         /\ task[t] = "succeeded"
         /\ Destination(t) \in DOMAIN disk
         /\ disk[Destination(t)] = "complete"
    /\ totalDownloadsBar = Cardinality(Tasks \ OwnFailure)

\* C3: a failed HEAD probe is not fatal for its task: the GET of that mod
\* is still issued and streamed to the destination file.
C3_ProbeFailureNonFatal ==
  \A t \in Tasks :
    task[t] = "probeFailed" =>
      /\ requests[outdatedMods[t].slug].get > 0
      /\ Destination(t) \in DOMAIN disk

\* C4: the destination of a failed task either holds the complete content
\* or does not exist; it is never an empty or truncated file.
C4_NoTruncatedFileOnFailure ==
  \A t \in Tasks :
    Failed(t) =>
      (Destination(t) \in DOMAIN disk => disk[Destination(t)] = "complete")

\* C5: when the registry fetch or the directory read fails, no
\* reconciliation is performed, no download task is created (no HEAD, no
\* GET, no file written) and "finished" is never reported; and a request is
\* only ever issued after both startup operations succeeded.
C5_FatalStartupCreatesNoDownloads ==
  /\ StartupFailed =>
       /\ startup # "then"
       /\ outdatedMods = <<>>
       /\ Tasks = {}
       /\ NoRequests
       /\ \A f \in DOMAIN disk : disk[f] = "complete"
       /\ finishedCalls = 0
       /\ ~finishedLogged
  /\ ~NoRequests => (regFetch = "ok" /\ dirRead = "ok")

\* C5 witness: the registry fetch failed in a run whose registry and
\* directory would have produced downloads, and the process has ended.
C5_Witness ==
  /\ regFetch = "failed"
  /\ dirRead = "ok"
  /\ proc = "exited"
  /\ Len(Outdated(registry, installedMods)) > 0

\* C6: a failed registry fetch or directory read ends the run with a
\* non-zero exit status.
C6_FatalStartupExitsNonZero ==
  (proc = "exited" /\ StartupFailed) => exitCode # 0

\* Lines on the error stream that carry the error of task t
Reports(t) == taskErrors[t] + (IF joinError = t THEN 1 ELSE 0)

\* C7: every task that failed (probe, stream or write) has exactly one
\* failure report on the error stream when the run ends.
C7_FailureReportedOnce ==
  proc = "exited" => \A t \in OwnFailure : Reports(t) = 1

\* C8: no two download tasks of one run write to the same destination path.
C8_DistinctDestinations ==
  \A t, u \in Tasks : t # u => Destination(t) # Destination(u)

\* The k-th smallest element of a set of indices
Nth(I, k) == CHOOSE i \in I : Cardinality({j \in I : j < i}) = k - 1
\* The subsequence of arr at the positions I, in the order of arr
SubsequenceAt(arr, I) == [k \in 1..Cardinality(I) |-> arr[Nth(I, k)]]

SortedRegistry == SortRegistry(RegistryArray(registry))
MatchedNow == findMatchingMods(SortedRegistry, installedMods)
InstalledNames == {installedMods.names[i] : i \in DOMAIN installedMods.names}
MatchingPositions ==
  {i \in 1..Len(SortedRegistry) : SortedRegistry[i].DisplayName \in InstalledNames}
OutdatedPositions ==
  {i \in 1..Len(MatchedNow) :
     IF MatchedNow[i].DisplayName \in DOMAIN installedMods.versions
     THEN installedMods.versions[MatchedNow[i].DisplayName] # MatchedNow[i].Version
     ELSE TRUE}

\* The .then callback of checkMods has run and nothing has happened since
ReconcilerJustRan ==
  /\ startup = "then"
  /\ proc = "running"
  /\ "join1000" \notin timers
  /\ \A t \in Tasks : task[t] = "head"

\* C9: findMatchingMods returns exactly the entries of the sorted registry
\* whose DisplayName occurs in installed.names, and checkOutdatedMods exactly
\* the matched entries whose Version differs from the installed version,
\* both in registry order; the outdated list is empty when every matched
\* version equals the installed one and is the matched list when all differ.
C9_ReconcilerResult ==
  ReconcilerJustRan =>
    LET outdated == checkOutdatedMods(MatchedNow, installedMods) IN
      /\ MatchedNow = SubsequenceAt(SortedRegistry, MatchingPositions)
      /\ outdated = SubsequenceAt(MatchedNow, OutdatedPositions)
      /\ OutdatedPositions = {} => outdated = <<>>
      /\ OutdatedPositions = 1..Len(MatchedNow) => outdated = MatchedNow
      /\ outdatedMods = outdated

\* C9 witness: the reconciler has run on a registry of which some entries
\* are not installed, some are installed and current, some are outdated.
C9_Witness ==
  /\ ReconcilerJustRan
  /\ 0 < Len(outdatedMods)
  /\ Len(outdatedMods) < Len(MatchedNow)
  /\ Len(MatchedNow) < Len(registry)

\* C10: a directory holding the one file "<Name> - V<k>_P.pak" is parsed to
\* name = Name and version = k, and "<Name> - _P.pak" to version "1", for
\* every Name (also one containing " - ") and every k (also one containing
\* "V").
C10_FilenameParsing ==
  (dirRead = "ok" /\ NoRequests) =>
    \A n \in ParsedNames :
      /\ \A k \in ParsedVersions :
           DOMAIN disk = {UserModFile(n, k)} =>
             installedMods = [names |-> <<n>>, versions |-> (n :> k)]
      /\ DOMAIN disk = {UnversionedFile(n)} =>
           installedMods = [names |-> <<n>>, versions |-> (n :> DefaultVersion)]

\* The user mod files of the directory as getInstalledMods reads them:
\* trimmed name and trimmed version of every file that has a separator
IsUserMod(f) == Len(Split(f, Separator)) > 1
TrimmedName(f) == Trim(Split(f, Separator)[1])
TrimmedVersion(f) == Trim(VersionOf(Split(f, Separator)[2]))
\* The directory is still as getInstalledMods read it
DirectoryAsRead == dirRead = "ok" /\ \A s \in DOMAIN requests : requests[s].get = 0

\* C11: after parsing, every name of installed.names is a key of
\* installed.versions and every key is a name; hence a registry entry whose
\* Version equals the version of the one installed file with that trimmed
\* name is never outdated, also when the file name has spaces around the name.
C11_NamesVersionsConsistent ==
  DirectoryAsRead =>
    /\ \A n \in InstalledNames : n \in DOMAIN installedMods.versions
    /\ \A k \in DOMAIN installedMods.versions : k \in InstalledNames
    /\ \A f \in DOMAIN disk :
         (/\ IsUserMod(f)
          /\ \A g \in DOMAIN disk \ {f} :
               IsUserMod(g) => TrimmedName(g) # TrimmedName(f)
          /\ startup = "then")
         => \A i \in 1..Len(outdatedMods) :
              ~(/\ outdatedMods[i].DisplayName = TrimmedName(f)
                /\ outdatedMods[i].Version = TrimmedVersion(f))

\* The files of the directory whose raw name part is the key k
FilesNamed(k) == {f \in DOMAIN disk : IsUserMod(f) /\ Split(f, Separator)[1] = k}
\* The one of them that is last in lexicographic file name order
LastNamed(k) == CHOOSE f \in FilesNamed(k) : \A g \in FilesNamed(k) \ {f} : StrLess(g, f)

\* C12: when several files share a mod name, the version retained for the
\* name is that of the file last in lexicographic file name order, whatever
\* the order in which readdir listed the files.
C12_LastInSortedOrderWins ==
  DirectoryAsRead =>
    \A k \in DOMAIN installedMods.versions :
      installedMods.versions[k] = TrimmedVersion(LastNamed(k))

\* C12 witness: a directory with two files of one mod name and different
\* versions has been parsed.
C12_Witness ==
  /\ DirectoryAsRead
  /\ \E k \in DOMAIN installedMods.versions :
       \E f, g \in FilesNamed(k) : TrimmedVersion(f) # TrimmedVersion(g)

\* The event loop keeps running callbacks as long as one is ready: every
\* started operation completes or fails, every timer fires
Fairness ==
  /\ WF_vars(CheckMods)
  /\ WF_vars(RegistryError \/ RegistryResponse)
  /\ WF_vars(ReaddirError \/ ReaddirDone)
  /\ \A t \in 1..MaxRegistry : WF_vars(HeadError(t) \/ HeadResponse(t))
  /\ \A t \in 1..MaxRegistry : WF_vars(PipelineError(t) \/ PipelineDone(t))
  /\ WF_vars(JoinTimer)
  /\ WF_vars(ExitTimer)
  /\ WF_vars(EventLoopDrained)

FairSpec == Init /\ [][Next]_vars /\ Fairness

StartupSucceeded == regFetch = "ok" /\ dirRead = "ok"

\* C13: in every run where the registry fetch and the directory read both
\* succeed, the run eventually prints "Finished updating Mods" and ends with
\* exit status 0, whether none, some or all downloads failed.
C13_FinishedAlwaysReached ==
  StartupSucceeded ~> (finishedLogged /\ proc = "exited" /\ exitCode = 0)

\* C13 witness: a run has printed "Finished updating Mods" and exited after
\* one download succeeded and another failed.
C13_Witness ==
  /\ finishedLogged
  /\ proc = "exited"
  /\ OwnFailure # {}
  /\ \E t \in Tasks : task[t] = "succeeded"

\* C14: under every interleaving of download completions the aggregate
\* counter is incremented exactly once per task whose pipeline completed,
\* so it always equals the number of tasks that have succeeded so far and
\* never exceeds the size of the outdated set.
C14_AggregateCounterExact ==
  /\ totalDownloadsBar = Cardinality({t \in Tasks : task[t] = "succeeded"})
  /\ totalDownloadsBar <= Len(outdatedMods)

\* C14 witness: two downloads have completed and a third one has failed.
C14_Witness ==
  /\ totalDownloadsBar = 2
  /\ Cardinality(Tasks) = 3
  /\ \E t \in Tasks : task[t] = "streamFailed"

\* The arrays the for-in loop of checkMods builds from registry objects of
\* the same content whose keys come in another order: every entry keeps its
\* slug
KeyOrders(reg) ==
  LET n == Len(reg)
      arr == RegistryArray(reg)
  IN {[i \in 1..n |-> arr[p[i]]] :
        p \in {q \in [1..n -> 1..n] : \A i, j \in 1..n : i # j => q[i] # q[j]}}

\* The reconciler of checkMods applied to such an array
OutdatedOf(arr, installed) ==
  checkOutdatedMods(findMatchingMods(SortRegistry(arr), installed), installed)

Members(mods) == {mods[i] : i \in DOMAIN mods}
DisplayNames(mods) == [i \in DOMAIN mods |-> mods[i].DisplayName]

\* C15 as stated: the outdated list has the same membership and the same
\* order for every order of the directory listing, every key order of the
\* registry object and either completion order of the startup operations.
C15_DeterministicAsStated ==
  ReconcilerJustRan =>
    \A arr \in KeyOrders(registry), files \in Listings(DOMAIN disk) :
      OutdatedOf(arr, ParseInstalled(files)) = outdatedMods

\* C15 amended: for every order of the directory listing and either
\* completion order of the startup operations the outdated list is the
\* same list; for every key order of the registry object it has the same
\* members and the same sequence of display names, the entries whose
\* display names compare equal following each other in key order; it is
\* the same list when the display names of the registry are distinct.
C15_DeterministicUpToTies ==
  ReconcilerJustRan =>
    /\ \A files \in Listings(DOMAIN disk) :
         Outdated(registry, ParseInstalled(files)) = outdatedMods
    /\ \A arr \in KeyOrders(registry), files \in Listings(DOMAIN disk) :
         LET other == OutdatedOf(arr, ParseInstalled(files)) IN
           /\ Members(other) = Members(outdatedMods)
           /\ DisplayNames(other) = DisplayNames(outdatedMods)
           /\ (\A i, j \in DOMAIN registry :
                 i # j => registry[i].DisplayName # registry[j].DisplayName)
                => other = outdatedMods

\* C15 witness: two mods of different names are outdated, the registry
\* object lists them against the sorted order, and the directory holds two
\* files.
C15_Witness ==
  /\ ReconcilerJustRan
  /\ Len(outdatedMods) = 2
  /\ outdatedMods[1].slug > outdatedMods[2].slug
  /\ outdatedMods[1].DisplayName # outdatedMods[2].DisplayName
  /\ Cardinality(DOMAIN disk) = 2

\* Every slug has been sent at most one HEAD and at most one GET, and none
\* when its entry is not in the outdated set
RequestsBounded ==
  \A s \in DOMAIN requests :
    /\ requests[s].head <= 1
    /\ requests[s].get <= 1
    /\ s \notin Slugs(outdatedMods) => requests[s].head = 0 /\ requests[s].get = 0

\* C16: within one run at most one HEAD and at most one GET are issued for
\* each entry of the outdated set, none for a registry entry outside it,
\* and a task that has failed stays failed and issues no further request.
C16_NoRetriesNoExtraRequests ==
  [][/\ RequestsBounded'
     /\ \A t \in OwnFailure :
          /\ task'[t] = task[t]
          /\ requests'[outdatedMods[t].slug] = requests[outdatedMods[t].slug]]_vars

\* C16 witness: the run has ended with a failed probe, a failed download
\* and a registry entry that was not outdated.
C16_Witness ==
  /\ proc = "exited"
  /\ \E t \in Tasks : task[t] = "probeFailed"
  /\ \E t \in Tasks : task[t] = "streamFailed"
  /\ Len(outdatedMods) < Len(registry)
  /\ RequestsBounded

\* The outdated set of this run, as registry entries
OutdatedNow == {Mod(outdatedMods[i]) : i \in DOMAIN outdatedMods}

\* C17: a mod whose download task failed in the previous run is in the
\* outdated set of the following run against the same registry; the file
\* created at the destination when the task started does not make the
\* parser record the registry version as installed.
C17_FailedDownloadStaysOutdated ==
  (previousRun.ran /\ ReconcilerJustRan) =>
    \A e \in previousRun.failed : e \in OutdatedNow

\* C18: after a run in which every outdated mod was downloaded
\* successfully, the following run against the same registry computes an
\* empty outdated set, for every pair of old and new version.
C18_ConvergesAfterSuccess ==
  (/\ previousRun.ran
   /\ previousRun.failed = {}
   /\ previousRun.succeeded # {}
   /\ ReconcilerJustRan)
    => outdatedMods = <<>>

\* finished() has run at most once, exactly once by the time a run whose
\* startup succeeded has exited; the main bar is within its total and at
\* its total once finished() has run
SingleCompletion ==
  /\ finishedCalls <= 1
  /\ (proc = "exited" /\ startup = "then") => finishedCalls = 1
  /\ startBar <= StartBarTotal
  /\ finishedCalls >= 1 => startBar = StartBarTotal

\* C19: finished() is invoked at most once (exactly once when the startup
\* stage succeeds), the main step counter never exceeds 5 and is 5 once
\* finished() has run, and no progress counter is incremented after
\* finished() has reported completion.
C19_SingleCompletionAndStepCount ==
  [][/\ SingleCompletion'
     /\ finishedCalls >= 1 =>
          /\ startBar' = startBar
          /\ totalDownloadsBar' = totalDownloadsBar]_vars

====
